---------------------------- MODULE Spec2Model ----------------------------
(***************************************************************************)
(* Model of scripts/updateMedals.js, the script that turns the HTML of a   *)
(* medal-table page into the rows of public/medals.json.  The repository   *)
(* holds four versions of the script:                                      *)
(*   "requireNoc"   src/scripts/updateMedals.js lines   1..181             *)
(*   "keepName"     src/scripts/updateMedals.js lines 182..364             *)
(*   "displayOrder" src/unnamed/part_000                                   *)
(*   "sortByMedals" src/unnamed/part_001                                   *)
(* A run executes one version on one document.  Texts are TLA+ strings,    *)
(* read character by character with Len, SubSeq and \o.                    *)
(***************************************************************************)
EXTENDS Integers, Sequences, FiniteSets, TLC

(***************************************************************************)
(* Bounds of the model.                                                    *)
(***************************************************************************)
MaxRows == 3      \* rows below the header row of the explored table
MaxTables == 2    \* tables of a document in the table-scan family
MaxLen == 3       \* length of the generated inputs of num
MaxCount == 11    \* largest count buildPlaceholders is called with

(***************************************************************************)
(* Characters and JavaScript string primitives.                            *)
(***************************************************************************)
NULL == "#null"   \* JavaScript null where a string may stand (no text holds "#")

NoRank == 0       \* JavaScript null in the rank field (real ranks are >= 1)

UpperCase == "ABCDEFGHIJKLMNOPQRSTUVWXYZ"

LowerCase == "abcdefghijklmnopqrstuvwxyz"

DigitChars == "0123456789"

CharAt(s, i) == SubSeq(s, i, i)

CharsOf(alphabet) == { CharAt(alphabet, i) : i \in 1..Len(alphabet) }

\* position of character c in the alphabet, 0 when it is not in it
IndexIn(alphabet, c) ==
  IF \E i \in 1..Len(alphabet) : CharAt(alphabet, i) = c
    THEN CHOOSE i \in 1..Len(alphabet) : CharAt(alphabet, i) = c
    ELSE 0

UpperChars == CharsOf(UpperCase)

LowerOf == [c \in UpperChars |-> CharAt(LowerCase, IndexIn(UpperCase, c))]

\* [A-Z]
IsUpper(c) == c \in UpperChars

\* \d
IsDigit(c) == c \in {"0", "1", "2", "3", "4", "5", "6", "7", "8", "9"}

\* \s
IsSpace(c) == c \in {" ", "\n", "\t"}

RECURSIVE toLowerCase(_)
toLowerCase(s) ==
  IF s = "" THEN ""
  ELSE LET c == CharAt(s, 1)
       IN (IF c \in UpperChars THEN LowerOf[c] ELSE c) \o toLowerCase(Tail(s))

startsWith(s, p) == Len(s) >= Len(p) /\ SubSeq(s, 1, Len(p)) = p

includes(s, sub) ==
  \E i \in 1..(Len(s) - Len(sub) + 1) : SubSeq(s, i, i + Len(sub) - 1) = sub

RECURSIVE TrimLeft(_)
TrimLeft(s) == IF s # "" /\ IsSpace(CharAt(s, 1)) THEN TrimLeft(Tail(s)) ELSE s

RECURSIVE TrimRight(_)
TrimRight(s) ==
  IF s # "" /\ IsSpace(CharAt(s, Len(s)))
    THEN TrimRight(SubSeq(s, 1, Len(s) - 1)) ELSE s

trim(s) == TrimRight(TrimLeft(s))

\* s.replace(/\s+/g, " "): every run of whitespace becomes one space
RECURSIVE CollapseSpaces(_)
CollapseSpaces(s) ==
  IF s = "" THEN ""
  ELSE IF IsSpace(CharAt(s, 1))
    THEN " " \o CollapseSpaces(TrimLeft(s))
    ELSE CharAt(s, 1) \o CollapseSpaces(Tail(s))

\* s.replace(/\s+/g, " ").trim()
NormText(s) == trim(CollapseSpaces(s))

\* s.replace(/\*+$/g, ""): the one run of "*" that ends the string
RECURSIVE StripStars(_)
StripStars(s) ==
  IF s # "" /\ CharAt(s, Len(s)) = "*"
    THEN StripStars(SubSeq(s, 1, Len(s) - 1)) ELSE s

\* s.replace(/[^\d]/g, "")
RECURSIVE StripNonDigits(_)
StripNonDigits(s) ==
  IF s = "" THEN ""
  ELSE (IF IsDigit(CharAt(s, 1)) THEN CharAt(s, 1) ELSE "")
         \o StripNonDigits(Tail(s))

\* parseInt(ds, 10) of a non-empty string of digits
RECURSIVE DigitsValue(_)
DigitsValue(ds) ==
  IF ds = "" THEN 0
  ELSE 10 * DigitsValue(SubSeq(ds, 1, Len(ds) - 1))
         + (IndexIn(DigitChars, CharAt(ds, Len(ds))) - 1)

\* String(n) of a non-negative integer below 10^21
RECURSIVE NatToString(_)
NatToString(n) ==
  IF n < 10 THEN CharAt(DigitChars, n + 1)
  ELSE NatToString(n \div 10) \o CharAt(DigitChars, (n % 10) + 1)

(***************************************************************************)
(* num(x).  An argument is a string, null or a number:                     *)
(*   [kind |-> "string", s |-> ...], [kind |-> "null"],                    *)
(*   [kind |-> "number", n |-> ...].                                       *)
(***************************************************************************)
Str(s) == [kind |-> "string", s |-> s]

JsNull == [kind |-> "null"]

Number(n) == [kind |-> "number", n |-> n]

String(x) ==
  CASE x.kind = "string" -> x.s
    [] x.kind = "null" -> "null"
    [] x.kind = "number" -> NatToString(x.n)

numDropsDigits(x) ==
  LET ds == StripNonDigits(String(x))
  IN IF ds = "" THEN 0 ELSE DigitsValue(CharAt(ds, 1))

num(x) ==
  LET ds == StripNonDigits(String(x))
  IN IF ds = "" THEN 0 ELSE DigitsValue(ds)

(***************************************************************************)
(* Reference tables and flag URLs.                                         *)
(***************************************************************************)
NOC_TO_ISO2 ==
  [ITA |-> "it", SUI |-> "ch", FRA |-> "fr", GER |-> "de", USA |-> "us",
   CAN |-> "ca", AUT |-> "at", NED |-> "nl", NOR |-> "no", SWE |-> "se",
   FIN |-> "fi", CZE |-> "cz", SVK |-> "sk", SLO |-> "si", POL |-> "pl",
   HUN |-> "hu", LAT |-> "lv", LTU |-> "lt", EST |-> "ee", GBR |-> "gb",
   JPN |-> "jp", KOR |-> "kr", CHN |-> "cn"]

NAME_TO_NOC ==
  "Italy" :> "ITA" @@ "Switzerland" :> "SUI" @@ "France" :> "FRA"
  @@ "Germany" :> "GER" @@ "United States" :> "USA" @@ "Canada" :> "CAN"
  @@ "Austria" :> "AUT" @@ "Netherlands" :> "NED" @@ "Norway" :> "NOR"
  @@ "Sweden" :> "SWE" @@ "Finland" :> "FIN" @@ "Czechia" :> "CZE"
  @@ "Czech Republic" :> "CZE" @@ "Slovakia" :> "SVK" @@ "Slovenia" :> "SLO"
  @@ "Poland" :> "POL" @@ "Hungary" :> "HUN" @@ "Latvia" :> "LAT"
  @@ "Lithuania" :> "LTU" @@ "Estonia" :> "EST" @@ "Great Britain" :> "GBR"
  @@ "United Kingdom" :> "GBR" @@ "Japan" :> "JPN" @@ "South Korea" :> "KOR"
  @@ "Korea" :> "KOR" @@ "China" :> "CHN"

\* obj[key] || null of a table of non-empty strings
Lookup(table, key) == IF key \in DOMAIN table THEN table[key] ELSE NULL

\* the "https://flagcdn.com/w40/<iso2>.png" template
flagPngFromIso2(iso2) ==
  IF iso2 = NULL \/ iso2 = "" THEN NULL
  ELSE "https://flagcdn.com/w40/" \o toLowerCase(iso2) \o ".png"

inferFlag(noc) == flagPngFromIso2(Lookup(NOC_TO_ISO2, noc))

\* requireNoc: flagUrlFromNoc(noc, nocToIso2)
flagUrlFromNoc(noc, nocToIso2) == flagPngFromIso2(Lookup(nocToIso2, noc))

\* keepName: flagUrlFromKey(key, map)
flagUrlFromKey(key, map) ==
  IF key = NULL \/ key = "" THEN NULL ELSE flagPngFromIso2(Lookup(map, key))

\* a || b of two strings-or-null
OrElse(a, b) == IF a = NULL \/ a = "" THEN b ELSE a

(***************************************************************************)
(* Identity resolution.                                                    *)
(***************************************************************************)
\* t.match(/\(([A-Z]{3})\)\s*$/) on a trimmed text: the captured code or NULL
MatchParenCode(t) ==
  LET n == Len(t)
  IN IF /\ n >= 5
        /\ CharAt(t, n - 4) = "("
        /\ \A i \in (n - 3)..(n - 1) : IsUpper(CharAt(t, i))
        /\ CharAt(t, n) = ")"
       THEN SubSeq(t, n - 3, n - 1)
       ELSE NULL

\* t.split(" ").pop()
RECURSIVE LastToken(_)
LastToken(t) ==
  IF \E i \in 1..Len(t) : CharAt(t, i) = " "
    THEN LastToken(SubSeq(t, (CHOOSE i \in 1..Len(t) : CharAt(t, i) = " ") + 1, Len(t)))
    ELSE t

\* /^[A-Z]{3}$/.test(tok)
IsCode(tok) == Len(tok) = 3 /\ \A i \in 1..3 : IsUpper(CharAt(tok, i))

\* the code the cell text itself carries: "(XXX)" at its end, else a last token XXX
CodeInText(t) ==
  IF MatchParenCode(t) # NULL THEN MatchParenCode(t)
  ELSE IF IsCode(LastToken(t)) THEN LastToken(t)
  ELSE NULL

inferNoc(countryName, cellText) ==
  LET t == NormText(cellText)
  IN IF CodeInText(t) # NULL THEN CodeInText(t)
     ELSE Lookup(NAME_TO_NOC, countryName)

(***************************************************************************)
(* Records and placeholders.                                               *)
(* src is a history field, absent from the program: the index, in the      *)
(* chosen table, of the row a record was read from (0 for a placeholder).  *)
(***************************************************************************)
Row(rank, noc, name, gold, silver, bronze, total, flag, placeholder, src) ==
  [rank |-> rank, noc |-> noc, name |-> name, gold |-> gold,
   silver |-> silver, bronze |-> bronze, total |-> total, flag |-> flag,
   placeholder |-> placeholder, src |-> src]

defaults10 ==
  << <<"ITA", "Italy">>, <<"SUI", "Switzerland">>, <<"USA", "United States">>,
     <<"CAN", "Canada">>, <<"GER", "Germany">>, <<"NOR", "Norway">>,
     <<"SWE", "Sweden">>, <<"FRA", "France">>, <<"AUT", "Austria">>,
     <<"NED", "Netherlands">> >>

defaults5 ==
  << <<"ITA", "Italy">>, <<"SUI", "Switzerland">>, <<"NOR", "Norway">>,
     <<"GER", "Germany">>, <<"CAN", "Canada">> >>

\* the flag of a placeholder, as each version looks it up
PlaceholderFlag(v, map, noc, name) ==
  CASE v = "requireNoc" -> flagUrlFromNoc(noc, map)
    [] v = "keepName" -> OrElse(flagUrlFromKey(noc, map), flagUrlFromKey(name, map))
    [] OTHER -> inferFlag(noc)

\* the seed list of each version
Defaults(v) == IF v \in {"requireNoc", "keepName"} THEN defaults10 ELSE defaults5

\* buildPlaceholders repeating the last seed entry instead of cycling
buildPlaceholdersNoCycle(v, map, count) ==
  [k \in 1..count |->
     LET base == Defaults(v)[IF k < Len(Defaults(v)) THEN k ELSE Len(Defaults(v))]
     IN Row(k, base[1], base[2], 0, 0, 0, 0,
            PlaceholderFlag(v, map, base[1], base[2]), TRUE, 0)]

\* Array.from({length: count}, (_, i) => ...) over the seed list
buildPlaceholders(v, map, count) ==
  [k \in 1..count |->
     LET base == Defaults(v)[((k - 1) % Len(Defaults(v))) + 1]
     IN Row(k, base[1], base[2], 0, 0, 0, 0,
            PlaceholderFlag(v, map, base[1], base[2]), TRUE, 0)]

\* arr.slice(0, n)
Take(arr, n) == SubSeq(arr, 1, IF n < Len(arr) THEN n ELSE Len(arr))

(***************************************************************************)
(* Documents.  A cell has its rendered text and the text of its first      *)
(* a[href^="/wiki/"] link ("" when it has none); a row is its sequence of  *)
(* th/td cells; a table has its class, the text of its first tr and the    *)
(* rows after that tr.                                                     *)
(***************************************************************************)
Plain(text) == [text |-> text, link |-> ""]

Linked(link, rest) == [text |-> link \o rest, link |-> link]

\* $(cells[i]).text() with i counted from 0; "" when the row has no such cell
CellText(cells, i) == IF i + 1 \in 1..Len(cells) THEN cells[i + 1].text ELSE ""

CellLink(cells, i) == IF i + 1 \in 1..Len(cells) THEN cells[i + 1].link ELSE ""

RowItalyParen ==
  << Plain("1"), Plain("Italy (ITA) "), Plain("1"), Plain("1"), Plain("0"), Plain("2") >>

RowCanadaLinked ==
  << Plain("2"), Linked("Canada", " CAN"), Plain("1"), Plain("0"), Plain("2"), Plain("3") >>

RowNorwayEmptyRank ==
  << Plain(""), Plain("Norway (NOR)"), Plain("1"), Plain("0"), Plain("1"), Plain("1,002") >>

RowNorwayNoRank ==
  << Linked("Norway", "*"), Plain("1"), Plain("0"), Plain("2"), Plain("3") >>

RowKosovoZero ==
  << Plain("3"), Plain("Kosovo"), Plain("0"), Plain("0"), Plain("0"), Plain("1") >>

RowTotals ==
  << Plain("9"), Plain("Totals (3)"), Plain("3"), Plain("1"), Plain("4"), Plain("8") >>

RowShort == << Plain("1"), Plain("x") >>

RowSwedenStar ==
  << Plain("3"), Plain("Sweden*"), Plain("1"), Plain("0"), Plain("2"), Plain("3") >>

\* a rank cell, a name cell and three medal cells: the total cell is missing
RowFinlandNoTotal ==
  << Plain("4"), Plain("Finland"), Plain("2"), Plain("0"), Plain("1") >>

RowCatalog ==
  { RowItalyParen, RowCanadaLinked, RowNorwayEmptyRank, RowNorwayNoRank,
    RowKosovoZero, RowTotals, RowShort, RowSwedenStar, RowFinlandNoTotal }

SeqsUpTo(S, n) == UNION { [1..k -> S] : k \in 0..n }

HeaderMedals == "Rank NOC Gold Silver Bronze Total"

HeaderShuffled == "NOC TOTAL bronze Silver gold"

HeaderNoTotal == "Rank NOC Gold Silver Bronze"

HeaderOther == "Year Host city"

Table(wikitable, header, body) ==
  [wikitable |-> wikitable, header |-> header, rows |-> body]

\* a table lists an entrant once: no row occurs twice
Bodies ==
  { b \in SeqsUpTo(RowCatalog, MaxRows) :
      \A i, j \in 1..Len(b) : i # j => b[i] # b[j] }

\* documents whose one table is a medal table: every body of up to MaxRows rows
RowDocs == { << Table(TRUE, HeaderMedals, b) >> : b \in Bodies }

\* documents of up to MaxTables tables of every class and header
ScanTables ==
  { Table(w, h, b) : w \in BOOLEAN,
                     h \in {HeaderMedals, HeaderShuffled, HeaderNoTotal, HeaderOther},
                     b \in { << RowItalyParen >> } }

ScanDocs == SeqsUpTo(ScanTables, MaxTables)

Docs == RowDocs \cup ScanDocs

\* scripts/noc_to_iso2.json as safeReadJson returns it: {} when unreadable
EmptyMap == << >>

JsonMap == "ITA" :> "IT" @@ "CAN" :> "ca" @@ "Kosovo" :> "xk" @@ "Italy" :> "it"

Variants == {"requireNoc", "keepName", "displayOrder", "sortByMedals"}

Config(v, m, topN, count) ==
  [variant |-> v, map |-> m, TOP_N |-> topN, PLACEHOLDER_COUNT |-> count]

\* A version that does not read a value has the empty map or 0 for it.
\* The settings every document is run with: the json map with entries, or TOP_N = 2
\* and the default PLACEHOLDER_COUNT.
RowConfigs ==
  { Config(v, JsonMap, 0, 1) : v \in {"requireNoc", "keepName"} }
  \cup { Config(v, EmptyMap, 2, 10) : v \in {"displayOrder", "sortByMedals"} }

\* The settings the documents of the table scan are run with as well: the json
\* file unreadable, or TOP_N = 3 and PLACEHOLDER_COUNT = 1.
ScanConfigs ==
  { Config(v, EmptyMap, 0, 10) : v \in {"requireNoc", "keepName"} }
  \cup { Config(v, EmptyMap, 3, 1) : v \in {"displayOrder", "sortByMedals"} }

Runs ==
  { << c, d >> : c \in RowConfigs, d \in Docs }
  \cup { << c, d >> : c \in ScanConfigs, d \in ScanDocs }

(***************************************************************************)
(* State.                                                                  *)
(***************************************************************************)
VARIABLES
  variant,            \* the version of the script that runs
  map,                \* requireNoc, keepName: the noc_to_iso2.json object
  TOP_N,              \* displayOrder, sortByMedals: rows to emit
  PLACEHOLDER_COUNT,  \* placeholder rows to build
  doc,                \* the parsed HTML: its tables in document order
  pc,                 \* "locate", "rows", "main", "done", or "num"
  ti,                 \* index of the table the header scan looks at next
  medalTable,         \* index of the table chosen, 0 while null
  ri,                 \* index of the row the row loop looks at next
  rows,               \* the rows array of the parse function
  isLiveData,         \* payload.isLiveData
  finalRows,          \* payload.rows
  numArg,             \* the argument of a stand-alone call of num
  numOut              \* its results: num(x), then num of that result

vars ==
  << variant, map, TOP_N, PLACEHOLDER_COUNT, doc, pc, ti, medalTable, ri,
     rows, isLiveData, finalRows, numArg, numOut >>

config == << variant, map, TOP_N, PLACEHOLDER_COUNT, doc >>

numVars == << numArg, numOut >>

Init ==
  /\ \E run \in Runs :
       /\ variant = run[1].variant
       /\ map = run[1].map
       /\ TOP_N = run[1].TOP_N
       /\ PLACEHOLDER_COUNT = run[1].PLACEHOLDER_COUNT
       /\ doc = run[2]
  /\ pc = "locate"
  /\ ti = 1
  /\ medalTable = 0
  /\ ri = 1
  /\ rows = << >>
  /\ isLiveData = FALSE
  /\ finalRows = << >>
  /\ numArg = JsNull
  /\ numOut = << >>

(***************************************************************************)
(* The header scan: $("table.wikitable").each(...).                        *)
(***************************************************************************)
HeaderFirstMatchOnlyGold(t) ==
  t.wikitable /\ includes(toLowerCase(t.header), "gold")

\* the table is selected by "table.wikitable" and its header names the four columns
IsMedalTable(t) ==
  /\ t.wikitable
  /\ LET header == toLowerCase(t.header)
     IN /\ includes(header, "gold") /\ includes(header, "silver")
        /\ includes(header, "bronze") /\ includes(header, "total")

ScanTable ==
  /\ pc = "locate"
  /\ ti <= Len(doc)
  /\ IF IsMedalTable(doc[ti])
       THEN /\ medalTable' = ti
            /\ pc' = "rows"
            /\ UNCHANGED ti
       ELSE /\ ti' = ti + 1
            /\ UNCHANGED << medalTable, pc >>
  /\ UNCHANGED << config, ri, rows, isLiveData, finalRows, numVars >>

\* if (!medalTable) return [];
NotFound ==
  /\ pc = "locate"
  /\ ti > Len(doc)
  /\ pc' = "main"
  /\ UNCHANGED << config, ti, medalTable, ri, rows, isLiveData, finalRows, numVars >>

(***************************************************************************)
(* The row callbacks.  Each operator is one call of the callback on the    *)
(* cells of a row: the sequence of records it pushes (none or one), given  *)
(* the rows pushed so far.                                                 *)
(***************************************************************************)
\* num($(cells[0]).text()) || (rows.length + 1)
RankOrPosition(cells, pushed) ==
  LET r == num(Str(CellText(cells, 0)))
  IN IF r # 0 THEN r ELSE Len(pushed) + 1

\* text.replace(new RegExp(`\\s*\$begin:math:text$\$\{noc\}\\$end:math:text$\\s*$`), "").trim()
\* The pattern the template yields, \s*$begin:math:text$${noc}\$end:math:text$\s*$,
\* asks for the letters "begin" after the end of the input: it matches no text.
RemoveNocSuffix(text, noc) == trim(text)

IsTotals(name) == startsWith(toLowerCase(name), "totals")

\* /^[0-9]+$/.test(firstText)
IsRankText(firstText) ==
  firstText # "" /\ \A i \in 1..Len(firstText) : IsDigit(CharAt(firstText, i))

\* link text, else cell text; then the "*" run at the end removed, and trimmed
CountryName(cells, i) ==
  LET name == OrElse(NormText(CellLink(cells, i)), NormText(CellText(cells, i)))
  IN trim(StripStars(name))

Medal(cells, i) == num(Str(CellText(cells, i)))

ParseRowRequireNoc(cells, pushed, nocToIso2, src) ==
  IF Len(cells) < 6 THEN << >>
  ELSE LET rank == RankOrPosition(cells, pushed)
           nocCellText == NormText(CellText(cells, 1))
           noc == CodeInText(nocCellText)
           name == IF noc # NULL THEN RemoveNocSuffix(nocCellText, noc) ELSE nocCellText
       IN IF name = "" \/ IsTotals(name) THEN << >>
          ELSE IF noc = NULL THEN << >>
          ELSE << Row(rank, noc, name, Medal(cells, 2), Medal(cells, 3),
                      Medal(cells, 4), Medal(cells, 5),
                      flagUrlFromNoc(noc, nocToIso2), FALSE, src) >>

ParseRowKeepNameDropsNoNoc(cells, pushed, jsonMap, src) ==
  ParseRowRequireNoc(cells, pushed, jsonMap, src)

ParseRowKeepName(cells, pushed, jsonMap, src) ==
  IF Len(cells) < 6 THEN << >>
  ELSE LET rank == RankOrPosition(cells, pushed)
           raw == NormText(CellText(cells, 1))
           noc == CodeInText(raw)
           name == IF noc # NULL THEN RemoveNocSuffix(raw, noc) ELSE raw
           flag == OrElse(flagUrlFromKey(noc, jsonMap), flagUrlFromKey(name, jsonMap))
       IN IF raw = "" THEN << >>
          ELSE IF IsTotals(name) THEN << >>
          ELSE << Row(rank, OrElse(noc, name), name, Medal(cells, 2), Medal(cells, 3),
                      Medal(cells, 4), Medal(cells, 5), flag, FALSE, src) >>

\* index (from 0) of the country cell in displayOrder
Start(cells) == IF IsRankText(NormText(CellText(cells, 0))) THEN 1 ELSE 0

ParseRowDisplayOrder(cells, pushed, topN, src) ==
  IF Len(pushed) >= topN THEN << >>
  ELSE IF Len(cells) < 5 THEN << >>
  ELSE LET start == Start(cells)
           name == CountryName(cells, start)
           noc == inferNoc(name, CellText(cells, start))
           flag == IF noc # NULL THEN inferFlag(noc) ELSE NULL
       IN IF name = "" THEN << >>
          ELSE IF IsTotals(name) THEN << >>
          ELSE << Row(Len(pushed) + 1, OrElse(noc, name), name,
                      Medal(cells, start + 1), Medal(cells, start + 2),
                      Medal(cells, start + 3), Medal(cells, start + 4),
                      flag, FALSE, src) >>

ParseRowSortByMedals(cells, src) ==
  IF Len(cells) < 6 THEN << >>
  ELSE LET name == CountryName(cells, 1)
           noc == inferNoc(name, CellText(cells, 1))
           flag == IF noc # NULL THEN inferFlag(noc) ELSE NULL
       IN IF name = "" THEN << >>
          ELSE IF IsTotals(name) THEN << >>
          ELSE << Row(NoRank, OrElse(noc, name), name,
                      Medal(cells, 2), Medal(cells, 3), Medal(cells, 4),
                      Medal(cells, 5), flag, FALSE, src) >>

TableRows == doc[medalTable].rows

\* the row loop left at the first row that pushes nothing
ParseRowBreaksOnDrop(pushed) ==
  /\ pc = "rows"
  /\ ri <= Len(doc[medalTable].rows)
  /\ rows' = rows \o pushed
  /\ ri' = IF pushed = << >> THEN Len(doc[medalTable].rows) + 1 ELSE ri + 1
  /\ UNCHANGED << config, pc, ti, medalTable, isLiveData, finalRows, numVars >>

ParseRow(pushed) ==
  /\ pc = "rows"
  /\ ri <= Len(TableRows)
  /\ rows' = rows \o pushed
  /\ ri' = ri + 1
  /\ UNCHANGED << config, pc, ti, medalTable, isLiveData, finalRows, numVars >>

RowRequireNoc ==
  /\ variant = "requireNoc"
  /\ ParseRow(ParseRowRequireNoc(TableRows[ri], rows, map, ri))

RowKeepName ==
  /\ variant = "keepName"
  /\ ParseRow(ParseRowKeepName(TableRows[ri], rows, map, ri))

RowDisplayOrder ==
  /\ variant = "displayOrder"
  /\ ParseRow(ParseRowDisplayOrder(TableRows[ri], rows, TOP_N, ri))

RowSortByMedals ==
  /\ variant = "sortByMedals"
  /\ ParseRow(ParseRowSortByMedals(TableRows[ri], ri))

(***************************************************************************)
(* Sorting.  Array.prototype.sort is stable: a record goes after the       *)
(* records that do not sort after it.                                      *)
(***************************************************************************)
\* (a, b) => a.rank - b.rank
CompareRankDescending(a, b) == b.rank - a.rank

CompareRank(a, b) == a.rank - b.rank

RECURSIVE InsertByRank(_, _)
InsertByRank(sorted, r) ==
  IF sorted = << >> THEN << r >>
  ELSE IF CompareRank(sorted[Len(sorted)], r) <= 0 THEN Append(sorted, r)
  ELSE Append(InsertByRank(SubSeq(sorted, 1, Len(sorted) - 1), r), sorted[Len(sorted)])

RECURSIVE SortByRank(_)
SortByRank(arr) ==
  IF arr = << >> THEN << >>
  ELSE InsertByRank(SortByRank(SubSeq(arr, 1, Len(arr) - 1)), arr[Len(arr)])

\* the end of the row loop: requireNoc and keepName sort by rank, then return
EndRows ==
  /\ pc = "rows"
  /\ ri > Len(TableRows)
  /\ rows' = IF variant \in {"requireNoc", "keepName"} THEN SortByRank(rows) ELSE rows
  /\ pc' = "main"
  /\ UNCHANGED << config, ti, medalTable, ri, isLiveData, finalRows, numVars >>

(***************************************************************************)
(* String(a.name).localeCompare(String(b.name)) under the root collation   *)
(* of the runtime's ICU: first the letters without their case (white       *)
(* space, then punctuation, then digits, then letters), and between texts  *)
(* equal so far, lower case before upper case at the first difference.     *)
(***************************************************************************)
CollationOrder == " ,()*0123456789abcdefghijklmnopqrstuvwxyz"

PrimaryWeight(c) == IndexIn(CollationOrder, toLowerCase(c))

RECURSIVE PrimaryCompare(_, _)
PrimaryCompare(a, b) ==
  IF a = "" /\ b = "" THEN 0
  ELSE IF a = "" THEN -1
  ELSE IF b = "" THEN 1
  ELSE LET wa == PrimaryWeight(CharAt(a, 1))
           wb == PrimaryWeight(CharAt(b, 1))
       IN IF wa < wb THEN -1
          ELSE IF wa > wb THEN 1
          ELSE PrimaryCompare(Tail(a), Tail(b))

RECURSIVE CaseCompare(_, _)
CaseCompare(a, b) ==
  IF a = "" \/ b = "" THEN 0
  ELSE IF CharAt(a, 1) = CharAt(b, 1) THEN CaseCompare(Tail(a), Tail(b))
  ELSE IF IsUpper(CharAt(b, 1)) THEN -1 ELSE 1

localeCompare(a, b) ==
  IF PrimaryCompare(a, b) # 0 THEN PrimaryCompare(a, b) ELSE CaseCompare(a, b)

CompareMedalsNoSilver(a, b) ==
  IF b.gold # a.gold THEN b.gold - a.gold
  ELSE IF b.bronze # a.bronze THEN b.bronze - a.bronze
  ELSE IF b.total # a.total THEN b.total - a.total
  ELSE localeCompare(a.name, b.name)

\* the comparator of sortByMedals
CompareMedals(a, b) ==
  IF b.gold # a.gold THEN b.gold - a.gold
  ELSE IF b.silver # a.silver THEN b.silver - a.silver
  ELSE IF b.bronze # a.bronze THEN b.bronze - a.bronze
  ELSE IF b.total # a.total THEN b.total - a.total
  ELSE localeCompare(a.name, b.name)

RECURSIVE InsertByMedals(_, _)
InsertByMedals(sorted, r) ==
  IF sorted = << >> THEN << r >>
  ELSE IF CompareMedals(sorted[Len(sorted)], r) <= 0 THEN Append(sorted, r)
  ELSE Append(InsertByMedals(SubSeq(sorted, 1, Len(sorted) - 1), r), sorted[Len(sorted)])

RECURSIVE sortByMedals(_)
sortByMedals(arr) ==
  IF arr = << >> THEN << >>
  ELSE InsertByMedals(sortByMedals(SubSeq(arr, 1, Len(arr) - 1)), arr[Len(arr)])

(***************************************************************************)
(* main(), after the parse function has returned.                          *)
(***************************************************************************)
HasAnyTotal(parsed) == \E i \in 1..Len(parsed) : parsed[i].total > 0

\* parsed.some(r => (r.gold + r.silver + r.bronze) > 0)
HasAnyMedals(parsed) ==
  \E i \in 1..Len(parsed) : parsed[i].gold + parsed[i].silver + parsed[i].bronze > 0

Max(a, b) == IF a > b THEN a ELSE b

\* sorted.slice(0, TOP_N).map((r, i) => ({...r, rank: i + 1}))
Rerank(arr) == [i \in 1..Len(arr) |-> [arr[i] EXCEPT !.rank = i]]

Finish(live, final) ==
  /\ pc = "main"
  /\ isLiveData' = live
  /\ finalRows' = final
  /\ pc' = "done"

MainRequireNoc ==
  /\ variant = "requireNoc"
  /\ Finish(HasAnyMedals(rows),
            IF HasAnyMedals(rows) THEN Take(rows, 10)
            ELSE buildPlaceholders(variant, map, PLACEHOLDER_COUNT))
  /\ UNCHANGED << config, ti, medalTable, ri, rows, numVars >>

MainKeepName ==
  /\ variant = "keepName"
  /\ Finish(HasAnyMedals(rows),
            IF Len(rows) > 0 THEN Take(rows, 10)
            ELSE buildPlaceholders(variant, map, PLACEHOLDER_COUNT))
  /\ UNCHANGED << config, ti, medalTable, ri, rows, numVars >>

MainDisplayOrder ==
  /\ variant = "displayOrder"
  /\ Finish(HasAnyMedals(rows),
            IF Len(rows) = TOP_N THEN rows
            ELSE Take(buildPlaceholders(variant, map, Max(PLACEHOLDER_COUNT, TOP_N)), TOP_N))
  /\ UNCHANGED << config, ti, medalTable, ri, rows, numVars >>

\* rows.sort(...) sorts parsedRows in place
MainSortByMedals ==
  /\ variant = "sortByMedals"
  /\ Finish(HasAnyMedals(rows),
            IF Len(rows) = 0
              THEN Take(buildPlaceholders(variant, map, Max(TOP_N, PLACEHOLDER_COUNT)), TOP_N)
              ELSE Rerank(Take(sortByMedals(rows), TOP_N)))
  /\ rows' = sortByMedals(rows)
  /\ UNCHANGED << config, ti, medalTable, ri, numVars >>

Next ==
  \/ ScanTable
  \/ NotFound
  \/ RowRequireNoc
  \/ RowKeepName
  \/ RowDisplayOrder
  \/ RowSortByMedals
  \/ EndRows
  \/ MainRequireNoc
  \/ MainKeepName
  \/ MainDisplayOrder
  \/ MainSortByMedals

Spec == Init /\ [][Next]_vars

(***************************************************************************)
(* Stand-alone calls of num: num(x), then num of the number it returned.   *)
(***************************************************************************)
NumAlphabet == {"0", "1", "7", ",", " ", "x"}

RECURSIVE Texts(_)
Texts(n) ==
  IF n = 0 THEN {""}
  ELSE Texts(n - 1) \cup { s \o c : s \in Texts(n - 1), c \in NumAlphabet }

NumInputs ==
  { Str(s) : s \in Texts(MaxLen) \cup {"12,345", " 1 234\n", "gold", "3rd"} }
    \cup { JsNull } \cup { Number(n) : n \in {0, 7, 12345} }

InitNum ==
  /\ numArg \in NumInputs
  /\ numOut = << >>
  /\ variant = "requireNoc"
  /\ map = EmptyMap
  /\ TOP_N = 0
  /\ PLACEHOLDER_COUNT = 0
  /\ doc = << >>
  /\ pc = "num"
  /\ ti = 1
  /\ medalTable = 0
  /\ ri = 1
  /\ rows = << >>
  /\ isLiveData = FALSE
  /\ finalRows = << >>

ApplyNum ==
  /\ pc = "num"
  /\ Len(numOut) = 0
  /\ numOut' = << num(numArg) >>
  /\ UNCHANGED << config, pc, ti, medalTable, ri, rows, isLiveData, finalRows, numArg >>

ReapplyNum ==
  /\ pc = "num"
  /\ Len(numOut) = 1
  /\ numOut' = Append(numOut, num(Number(numOut[1])))
  /\ UNCHANGED << config, pc, ti, medalTable, ri, rows, isLiveData, finalRows, numArg >>

NextNum == ApplyNum \/ ReapplyNum

SpecNum == InitNum /\ [][NextNum]_vars

(***************************************************************************)
(* Vocabulary of the properties.                                           *)
(***************************************************************************)
Found == medalTable # 0

\* indices of the rows of the chosen table the row loop has gone through
Processed == IF Found THEN 1..(ri - 1) ELSE {}

Cells(i) == TableRows[i]

Emitted == pc = "done"

\* the payload holds rows read from the document, not placeholders
EmitsParsed == Emitted /\ finalRows # << >> /\ ~finalRows[1].placeholder

MedalSum(r) == r.gold + r.silver + r.bronze

\* the integer the digit characters of a text spell, read left to right
RECURSIVE DigitsSpelled(_, _)
DigitsSpelled(s, acc) ==
  IF s = "" THEN acc
  ELSE IF CharAt(s, 1) \in CharsOf(DigitChars)
    THEN DigitsSpelled(Tail(s), 10 * acc + IndexIn(DigitChars, CharAt(s, 1)) - 1)
    ELSE DigitsSpelled(Tail(s), acc)

(***************************************************************************)
(* C3.  sortByMedals: the emitted rows are the first TOP_N of the          *)
(* extracted records ordered by gold descending, then silver, bronze and   *)
(* total descending, then name ascending (in the order of localeCompare),  *)
(* and the k-th emitted row has rank k, whatever rank its source row       *)
(* declares.                                                               *)
(***************************************************************************)
MedalKeyBefore(a, b) ==
  LET ka == << a.gold, a.silver, a.bronze, a.total >>
      kb == << b.gold, b.silver, b.bronze, b.total >>
  IN \/ \E j \in 1..4 : ka[j] > kb[j] /\ \A h \in 1..(j - 1) : ka[h] = kb[h]
     \/ ka = kb /\ localeCompare(a.name, b.name) <= 0

C3_RecomputeRanking ==
  (Emitted /\ variant = "sortByMedals" /\ Len(rows) > 0) =>
    /\ Len(finalRows) = (IF TOP_N < Len(rows) THEN TOP_N ELSE Len(rows))
    /\ \A k \in 1..Len(finalRows) : finalRows[k].rank = k
    /\ \A k \in 1..(Len(finalRows) - 1) : MedalKeyBefore(finalRows[k], finalRows[k + 1])
    /\ \A k \in 1..Len(finalRows) :
         /\ ~finalRows[k].placeholder
         /\ \E i \in 1..Len(rows) : finalRows[k] = [rows[i] EXCEPT !.rank = k]
    /\ \A k, h \in 1..Len(finalRows) : k # h => finalRows[k].src # finalRows[h].src
    /\ \A i \in 1..Len(rows) :
         \/ \E k \in 1..Len(finalRows) : finalRows[k].src = rows[i].src
         \/ \A k \in 1..Len(finalRows) : MedalKeyBefore(finalRows[k], rows[i])

\* a later row of the table overtakes an earlier one with as much gold on silver
C3_Witness ==
  /\ Emitted /\ variant = "sortByMedals" /\ Len(finalRows) >= 2
  /\ finalRows[1].src > finalRows[2].src
  /\ finalRows[1].gold = finalRows[2].gold
  /\ finalRows[1].silver > finalRows[2].silver
  /\ finalRows[1].bronze < finalRows[2].bronze
  /\ finalRows[1].rank = 1 /\ finalRows[2].rank = 2

(***************************************************************************)
(* C4.  requireNoc and keepName: an emitted row has the rank its source    *)
(* row declares, or one more than the number of records read before it     *)
(* when the row declares none, and the emitted rows are in ascending order *)
(* of that rank.                                                           *)
(***************************************************************************)
DeclaredRank(i) == DigitsSpelled(CellText(Cells(i), 0), 0)

RecordsBefore(i) == { k \in 1..Len(rows) : rows[k].src < i }

C4_PreserveRanking ==
  (EmitsParsed /\ variant \in {"requireNoc", "keepName"}) =>
    /\ \A k \in 1..Len(finalRows) :
         LET r == finalRows[k]
         IN r.rank = (IF DeclaredRank(r.src) > 0 THEN DeclaredRank(r.src)
                      ELSE Cardinality(RecordsBefore(r.src)) + 1)
    /\ \A k \in 1..(Len(finalRows) - 1) : finalRows[k].rank <= finalRows[k + 1].rank

\* rows ranked 1, 2 and a row with an empty rank cell come out as ranks 1, 2, 3
C4_Witness ==
  /\ EmitsParsed /\ variant \in {"requireNoc", "keepName"}
  /\ Len(finalRows) = 3
  /\ \A k \in 1..3 : finalRows[k].src = k /\ finalRows[k].rank = k
  /\ CellText(Cells(1), 0) = "1" /\ CellText(Cells(2), 0) = "2"
  /\ CellText(Cells(3), 0) = ""

(***************************************************************************)
(* C5.  In every version isLiveData is true exactly when some extracted    *)
(* record has a gold, silver or bronze count above zero; it is false when  *)
(* every record has none and when no record was extracted.                 *)
(***************************************************************************)
C5_Liveness ==
  Emitted =>
    /\ isLiveData = ~(\A i \in 1..Len(rows) : MedalSum(rows[i]) = 0)
    /\ rows = << >> => ~isLiveData

\* records were extracted, none has a medal though one has a total: not live
C5_Witness ==
  /\ Emitted /\ rows # << >> /\ ~isLiveData
  /\ \E i \in 1..Len(rows) : rows[i].total > 0

IsPlainInteger(text) ==
  text # "" /\ \A j \in 1..Len(text) : CharAt(text, j) \in CharsOf(DigitChars)

\* index, from 0, of the name column the rule gives a row
NameColumn(cells) == IF IsPlainInteger(NormText(CellText(cells, 0))) THEN 1 ELSE 0

UsableName(name) == name # "" /\ ~startsWith(toLowerCase(name), "totals")

\* displayOrder stops reading once it holds TOP_N records
RoomFor(i) ==
  variant = "displayOrder" => Cardinality({ k \in 1..Len(rows) : rows[k].src < i }) < TOP_N

C1_RankPresence ==
  variant \in {"displayOrder", "sortByMedals"} =>
    \A i \in Processed :
      LET col == NameColumn(Cells(i))
      IN /\ \A k \in 1..Len(rows) :
              rows[k].src = i =>
                includes(NormText(CellText(Cells(i), col)), rows[k].name)
         /\ ( /\ col = 0
              /\ Len(Cells(i)) >= 5
              /\ UsableName(CountryName(Cells(i), 0))
              /\ RoomFor(i) )
            => \E k \in 1..Len(rows) :
                 rows[k].src = i /\ rows[k].name = CountryName(Cells(i), 0)

(***************************************************************************)
(* C2.  In requireNoc and displayOrder the code of a record is, first      *)
(* success winning: the three capitals in parentheses that end the text of *)
(* its name cell; else the last blank-separated token of that text when it *)
(* is three capitals; else the entry of the name table for the record's    *)
(* name; and the name is the text of the cell's link when it has one, so   *)
(* that a code written after the link stays out of the name.               *)
(***************************************************************************)
\* index, from 0, of the cell a version reads the name from
NameCellOf(cells) == IF variant = "displayOrder" THEN Start(cells) ELSE 1

EndsWithParenCode(text, code) ==
  /\ Len(text) >= 5
  /\ SubSeq(text, Len(text) - 4, Len(text)) = "(" \o code \o ")"

ThreeCapitals(code) ==
  Len(code) = 3 /\ \A j \in 1..3 : CharAt(code, j) \in CharsOf(UpperCase)

\* the text after the last blank of a text
FinalToken(text) ==
  LET blanks == { j \in 1..Len(text) : CharAt(text, j) = " " }
      last == IF blanks = {} THEN 0 ELSE CHOOSE j \in blanks : \A h \in blanks : h <= j
  IN SubSeq(text, last + 1, Len(text))

\* the code the priority order gives a cell text and a name, NULL when none
CodeByPriority(text, name) ==
  IF Len(text) >= 5 /\ ThreeCapitals(SubSeq(text, Len(text) - 3, Len(text) - 1))
       /\ EndsWithParenCode(text, SubSeq(text, Len(text) - 3, Len(text) - 1))
    THEN SubSeq(text, Len(text) - 3, Len(text) - 1)
  ELSE IF ThreeCapitals(FinalToken(text)) THEN FinalToken(text)
  ELSE IF name \in DOMAIN NAME_TO_NOC THEN NAME_TO_NOC[name]
  ELSE NULL

C2_IdentityPriority ==
  variant \in {"requireNoc", "displayOrder"} =>
    \A k \in 1..Len(rows) :
      LET r == rows[k]
          col == NameCellOf(Cells(r.src))
          text == NormText(CellText(Cells(r.src), col))
          link == NormText(CellLink(Cells(r.src), col))
      IN /\ link # "" => r.name = link
         /\ CodeByPriority(text, r.name) # NULL => r.noc = CodeByPriority(text, r.name)

(***************************************************************************)
(* C6.  In requireNoc and displayOrder the payload holds the extracted     *)
(* records, none marked placeholder, exactly when isLiveData is true, and  *)
(* placeholder rows exactly when it is false: the flag of the payload and  *)
(* the placeholder marks of its rows never disagree.                       *)
(***************************************************************************)
C6_LiveOrPlaceholder ==
  (Emitted /\ variant \in {"requireNoc", "displayOrder"}) =>
    /\ \A k \in 1..Len(finalRows) : finalRows[k].placeholder = ~isLiveData
    /\ isLiveData =>
         /\ finalRows # << >>
         /\ \A k \in 1..Len(finalRows) : \E i \in 1..Len(rows) : finalRows[k] = rows[i]

(***************************************************************************)
(* C9.  In keepName and displayOrder every record has a non-empty code and *)
(* a non-empty name that does not end with the host marker "*"; a row      *)
(* whose name is empty once the markers are stripped, or starts with       *)
(* "totals" in any case, yields no record.                                 *)
(***************************************************************************)
\* a text without the "*" and blanks that end it
RECURSIVE WithoutMarkers(_)
WithoutMarkers(text) ==
  IF text # "" /\ CharAt(text, Len(text)) \in {"*", " "}
    THEN WithoutMarkers(SubSeq(text, 1, Len(text) - 1))
    ELSE text

\* the name a name cell shows: its link text, else its text
ShownName(cells, col) ==
  IF NormText(CellLink(cells, col)) # "" THEN NormText(CellLink(cells, col))
  ELSE NormText(CellText(cells, col))

WellFormedRecord(r) ==
  /\ r.noc # NULL /\ r.noc # ""
  /\ r.name # NULL /\ r.name # ""
  /\ CharAt(r.name, Len(r.name)) # "*"

C9_RecordInvariant ==
  variant \in {"keepName", "displayOrder"} =>
    /\ \A k \in 1..Len(rows) : WellFormedRecord(rows[k])
    /\ \A k \in 1..Len(finalRows) : WellFormedRecord(finalRows[k])
    /\ \A i \in Processed :
         LET name == WithoutMarkers(ShownName(Cells(i), NameCellOf(Cells(i))))
         IN ~UsableName(name) => \A k \in 1..Len(rows) : rows[k].src # i

(***************************************************************************)
(* C7.  The table read is the first table of class wikitable, in document  *)
(* order, whose first row's text holds "gold", "silver", "bronze" and      *)
(* "total" in any case and order, never a later one; when no such table    *)
(* exists the scan ends without failing, no record is extracted and        *)
(* isLiveData is false.                                                    *)
(***************************************************************************)
HasAllFour(header) ==
  LET low == toLowerCase(header)
  IN \A tok \in {"gold", "silver", "bronze", "total"} :
       \E j \in 1..(Len(low) - Len(tok) + 1) : SubSeq(low, j, j + Len(tok) - 1) = tok

\* tables whose header row names the four columns: of any class, of class wikitable
Qualifying == { j \in 1..Len(doc) : HasAllFour(doc[j].header) }

QualifyingWikitables == { j \in Qualifying : doc[j].wikitable }

First(S) == IF S = {} THEN 0 ELSE CHOOSE j \in S : \A h \in S : j <= h

ScanOutcome(candidates) ==
  /\ pc = "locate" =>
       /\ ti \in 1..(Len(doc) + 1)
       /\ \A j \in candidates : j >= ti
  /\ pc \in {"rows", "main", "done"} =>
       /\ medalTable = First(candidates)
       /\ candidates = {} => rows = << >> /\ (Emitted => ~isLiveData)

C7_FirstWikitable == ScanOutcome(QualifyingWikitables)

\* the claim as stated: the first qualifying table of any class
C7_FirstTableOfAnyClass == ScanOutcome(Qualifying)

\* the second table is read: the first names the four columns but is no wikitable
C7_Witness ==
  /\ Emitted /\ medalTable = 2
  /\ HasAllFour(doc[1].header) /\ ~doc[1].wikitable

(***************************************************************************)
(* C8.  A row with enough cells and a usable name whose code no resolution *)
(* step of its version gives is dropped by requireNoc; keepName,           *)
(* displayOrder and sortByMedals keep it as a record whose code is its     *)
(* name; that record's flag is null in displayOrder and sortByMedals, and  *)
(* in keepName it is the flag the json map gives the name, null when the   *)
(* map has no entry for it.                                                *)
(***************************************************************************)
MinCells == IF variant = "displayOrder" THEN 5 ELSE 6

\* the name a version gives the row
NameOfRow(cells) ==
  IF variant \in {"requireNoc", "keepName"} THEN NormText(CellText(cells, 1))
  ELSE CountryName(cells, NameCellOf(cells))

\* no resolution step of the version gives the row a code
Unresolved(cells) ==
  LET text == NormText(CellText(cells, NameCellOf(cells)))
  IN IF variant \in {"requireNoc", "keepName"}
       THEN CodeByPriority(text, "") = NULL
       ELSE CodeByPriority(text, NameOfRow(cells)) = NULL

UnresolvedRows ==
  { i \in Processed :
      /\ Len(Cells(i)) >= MinCells
      /\ UsableName(NameOfRow(Cells(i)))
      /\ Unresolved(Cells(i))
      /\ RoomFor(i) }

RecordsOf(i) == { k \in 1..Len(rows) : rows[k].src = i }

NameKeyMap == "Switzerland" :> "CH" @@ "NOR" :> "no" @@ "ITA" :> ""

PlaceholderMaps == {EmptyMap, JsonMap, NameKeyMap}

InitPlaceholders ==
  /\ variant \in Variants
  /\ map \in PlaceholderMaps
  /\ PLACEHOLDER_COUNT \in 0..MaxCount
  /\ TOP_N = 0
  /\ doc = << >>
  /\ pc = "placeholders"
  /\ ti = 1
  /\ medalTable = 0
  /\ ri = 1
  /\ rows = << >>
  /\ isLiveData = FALSE
  /\ finalRows = << >>
  /\ numArg = JsNull
  /\ numOut = << >>

\* requireNoc, keepName: buildPlaceholders(map, count)
PlaceholdersFromMap ==
  /\ pc = "placeholders"
  /\ variant \in {"requireNoc", "keepName"}
  /\ finalRows' = buildPlaceholders(variant, map, PLACEHOLDER_COUNT)
  /\ pc' = "built"
  /\ UNCHANGED << config, ti, medalTable, ri, rows, isLiveData, numVars >>

\* displayOrder, sortByMedals: buildPlaceholders(count), flags by NOC_TO_ISO2
PlaceholdersFromTable ==
  /\ pc = "placeholders"
  /\ variant \in {"displayOrder", "sortByMedals"}
  /\ finalRows' = buildPlaceholders(variant, map, PLACEHOLDER_COUNT)
  /\ pc' = "built"
  /\ UNCHANGED << config, ti, medalTable, ri, rows, isLiveData, numVars >>

NextPlaceholders == PlaceholdersFromMap \/ PlaceholdersFromTable

SpecPlaceholders == InitPlaceholders /\ [][NextPlaceholders]_vars

(***************************************************************************)
(* C11.  buildPlaceholders called with a count n >= 0 returns n records;   *)
(* the i-th has rank i, the code and name of seed entry (i-1) mod the seed *)
(* length, gold = silver = bronze = total = 0 and placeholder = true.  Its *)
(* flag is the one the version's code table gives the code; keepName,      *)
(* when the json map gives the code no flag, takes the flag the map gives  *)
(* the name.  (That two calls agree is the definition of a function and    *)
(* is not part of the formula.)                                            *)
(***************************************************************************)
\* the seed lists, as the sources spell them
SeedList ==
  IF variant \in {"requireNoc", "keepName"}
    THEN << [noc |-> "ITA", name |-> "Italy"], [noc |-> "SUI", name |-> "Switzerland"],
            [noc |-> "USA", name |-> "United States"], [noc |-> "CAN", name |-> "Canada"],
            [noc |-> "GER", name |-> "Germany"], [noc |-> "NOR", name |-> "Norway"],
            [noc |-> "SWE", name |-> "Sweden"], [noc |-> "FRA", name |-> "France"],
            [noc |-> "AUT", name |-> "Austria"], [noc |-> "NED", name |-> "Netherlands"] >>
    ELSE << [noc |-> "ITA", name |-> "Italy"], [noc |-> "SUI", name |-> "Switzerland"],
            [noc |-> "NOR", name |-> "Norway"], [noc |-> "GER", name |-> "Germany"],
            [noc |-> "CAN", name |-> "Canada"] >>

SeedOf(i) == SeedList[((i - 1) % Len(SeedList)) + 1]

\* the code-to-iso2 table of the version
CodeTable == IF variant \in {"requireNoc", "keepName"} THEN map ELSE NOC_TO_ISO2

\* the flag URL of a key with a non-empty iso2 in the table, null otherwise
FlagOfKey(table, key) ==
  IF key \in DOMAIN table /\ table[key] # ""
    THEN "https://flagcdn.com/w40/" \o toLowerCase(table[key]) \o ".png"
    ELSE NULL

Built == pc = "built"

\* everything but the flag
PlaceholderShape ==
  /\ Len(finalRows) = PLACEHOLDER_COUNT
  /\ \A i \in 1..Len(finalRows) :
       /\ finalRows[i].rank = i
       /\ finalRows[i].noc = SeedOf(i).noc
       /\ finalRows[i].name = SeedOf(i).name
       /\ finalRows[i].gold = 0 /\ finalRows[i].silver = 0
       /\ finalRows[i].bronze = 0 /\ finalRows[i].total = 0
       /\ finalRows[i].placeholder = TRUE

\* the claim as stated: the flag comes from the code
C11_FlagFromCode ==
  Built =>
    /\ PlaceholderShape
    /\ \A i \in 1..Len(finalRows) :
         finalRows[i].flag = FlagOfKey(CodeTable, finalRows[i].noc)

C11_Placeholders ==
  Built =>
    /\ PlaceholderShape
    /\ \A i \in 1..Len(finalRows) :
         LET byCode == FlagOfKey(CodeTable, finalRows[i].noc)
         IN finalRows[i].flag =
              IF variant = "keepName" /\ byCode = NULL
                THEN FlagOfKey(map, finalRows[i].name)
                ELSE byCode

\* keepName, asked for more records than it has seeds, flags one by its name
C11_Witness ==
  /\ Built /\ variant = "keepName"
  /\ Len(finalRows) > Len(SeedList)
  /\ finalRows[Len(SeedList) + 1].noc = "ITA"
  /\ finalRows[2].flag # NULL /\ "SUI" \notin DOMAIN map

(***************************************************************************)
(* C12.  In displayOrder and sortByMedals every record's gold, silver,     *)
(* bronze and total are the integers spelled by the digits of the four     *)
(* cells that follow the cell its name was read from, in the row it was    *)
(* read from; that row has those four cells, so a row with fewer cells     *)
(* than name cell plus four medal cells (6 with a rank cell, 5 without)    *)
(* yields no record; and total is the total cell's number, whatever gold + *)
(* silver + bronze is.                                                     *)
(***************************************************************************)
\* the integer the digits of cell j (from 0) of a row spell, 0 without digits
CellNumber(cells, j) == DigitsSpelled(cells[j + 1].text, 0)

\* fewest cells of a row whose name cell has four cells after it
CellsNeeded(cells) == NameCellOf(cells) + 5

C12_MedalColumns ==
  variant \in {"displayOrder", "sortByMedals"} =>
    \A i \in Processed :
      LET cells == Cells(i)
          c == NameCellOf(cells)
      IN IF Len(cells) < CellsNeeded(cells) THEN RecordsOf(i) = {}
         ELSE \A k \in RecordsOf(i) :
                /\ rows[k].gold = CellNumber(cells, c + 1)
                /\ rows[k].silver = CellNumber(cells, c + 2)
                /\ rows[k].bronze = CellNumber(cells, c + 3)
                /\ rows[k].total = CellNumber(cells, c + 4)

(***************************************************************************)
(* C13.  In displayOrder and sortByMedals a malformed row (fewer cells     *)
(* than the version's minimum, or a name that is empty or begins with      *)
(* "totals") yields no record and does not end the row loop: the loop goes *)
(* through every row of the table, and the records it returns are, one for *)
(* one and in table order, the well-formed rows; in displayOrder the first *)
(* TOP_N of them, since it reads no row once it holds TOP_N records.       *)
(***************************************************************************)
WellFormed(cells) ==
  /\ Len(cells) >= MinCells
  /\ UsableName(NameOfRow(cells))

WellFormedRows == { i \in Processed : WellFormed(Cells(i)) }

\* the loop runs, or has returned and main has not touched its result yet
InRowLoop == Found /\ pc \in {"rows", "main"}

\* the loop ends only past the last row of the table
LoopGoesThrough ==
  /\ pc = "rows" => ri \in 1..(Len(TableRows) + 1)
  /\ pc = "main" => ri = Len(TableRows) + 1

\* record k was read from the k-th well-formed row
InTableOrder ==
  \A k \in 1..Len(rows) :
    /\ rows[k].src \in WellFormedRows
    /\ Cardinality({ i \in WellFormedRows : i <= rows[k].src }) = k

\* the claim as stated: every well-formed row has its record
C13_EveryWellFormedRow ==
  variant \in {"displayOrder", "sortByMedals"} /\ InRowLoop =>
    /\ LoopGoesThrough
    /\ Len(rows) = Cardinality(WellFormedRows)
    /\ InTableOrder

C13_MalformedAbsorbed ==
  variant \in {"displayOrder", "sortByMedals"} /\ InRowLoop =>
    /\ LoopGoesThrough
    /\ Len(rows) = IF variant = "displayOrder" /\ Cardinality(WellFormedRows) > TOP_N
                     THEN TOP_N ELSE Cardinality(WellFormedRows)
    /\ InTableOrder

\* the loop has returned the record of a well-formed row that follows a malformed one
C13_Witness ==
  /\ variant \in {"displayOrder", "sortByMedals"}
  /\ Found /\ pc = "main"
  /\ \E i, j \in Processed :
       /\ i < j
       /\ ~WellFormed(Cells(i))
       /\ \E k \in 1..Len(rows) : rows[k].src = j

=============================================================================
